---- MODULE Spec2Model ----
(***************************************************************************)
(* Model of trac/mimeview/pygments_renderer.py.                            *)
(*                                                                         *)
(* The state machines of this module:                                      *)
(*   SpecCoalesce  GenshiHtmlFormatter.generate, the generator that turns  *)
(*                 a token sequence into START/TEXT/END events;            *)
(*   Spec          PygmentsRenderer.get_quality_ratio / render /           *)
(*                 _init_types run by several request threads on the one   *)
(*                 component instance, one statement per step;             *)
(*   SpecRender    one render call on a built table and the consumption of *)
(*                 the lazy stream it returns;                             *)
(*   SpecCss       PygmentsRenderer.process_request, statement by          *)
(*                 statement;                                              *)
(*   SpecPrefs     PygmentsRenderer.render_preference_panel, request after *)
(*                 request on one session.                                 *)
(***************************************************************************)
EXTENDS Integers, Sequences, FiniteSets, TLC

(***************************************************************************)
(* Bounds                                                                  *)
(***************************************************************************)
MaxTokens == 3

MaxThreads == 2

(***************************************************************************)
(* Python values                                                           *)
(***************************************************************************)
\* Python's None and a present value, kept apart so that "x == None" and
\* "if x" are computed as Python computes them.
None == [some |-> FALSE, val |-> <<>>]

Some(v) == [some |-> TRUE, val |-> v]

\* bool(x) of a tuple-or-None: None is false, a tuple is true iff non-empty.
Truthy(x) == x.some /\ Len(x.val) > 0

(***************************************************************************)
(* State                                                                   *)
(***************************************************************************)
VARIABLES
    \* GenshiHtmlFormatter.generate
    tokens,     \* the token sequence handed to generate()
    pos,        \* number of tokens the for-loop has consumed
    lattrs,     \* the generator's local lattrs
    lclass,     \* history: token type of the token that last assigned lattrs
    out,        \* the events yielded so far
    gpc,        \* "loop" while in the for-loop, "done" after the generator ended,
                \* "error" after an exception left it
    raises,     \* the token iterator raises after its last token
    \* PygmentsRenderer
    have_pygments,  \* the module-level flag set by the import of pygments
    config,     \* Mimeview(env).configured_modes_mapping('pygments')
    types,      \* self._types
    pc,         \* per request thread: the statement it is about to execute
    op,         \* per request thread: the method it is running
    idx,        \* per request thread: position in the loop of _init_types
    ref,        \* per request thread: the dict it read from self._types and
                \* is about to write: "none", "current" (still self._types)
                \* or "replaced" (self._types was assigned since)
    last,       \* the call that returned last: method, argument, outcome
    initCalls,  \* history: number of times _init_types was entered
    built,      \* history: some _init_types call has returned
    \* process_request
    hreq,       \* the request: style, If-Modified-Since header, file mtime
    hpc,        \* the statement process_request is about to execute
    resp,       \* what was sent on the request so far
    \* render_preference_panel
    session,    \* req.session.get('pygments_style'), None when unset
    preq,       \* the request handled last and what it answered
    stored      \* history: list(get_all_styles()) of the POST that set session

genVars == <<tokens, pos, lattrs, lclass, out, gpc, raises>>

cssVars == <<hreq, hpc, resp>>

prefVars == <<session, preq, stored>>

otherVars == <<cssVars, prefVars>>

svcVars == <<have_pygments, config, types, pc, op, idx, ref, last, initCalls, built>>

vars == <<genVars, svcVars, otherVars>>

(***************************************************************************)
(* Token Coalescer: GenshiHtmlFormatter.generate                           *)
(***************************************************************************)
\* Token types the lexer hands out.  Token and Token.Text both have the
\* empty CSS class in Pygments' STANDARD_TYPES.
TokenTypes == {"Token", "Token.Text", "Token.Keyword", "Token.Comment"}

\* self._get_css_class(ttype)
CssClass(ttype) ==
    CASE ttype = "Token"         -> ""
      [] ttype = "Token.Text"    -> ""
      [] ttype = "Token.Keyword" -> "k"
      [] ttype = "Token.Comment" -> "c"

\* Token texts: strings as sequences of characters.
Texts == {<<>>, <<"x">>, <<"y">>, <<"z">>}

Tokens == [ttype : TokenTypes, value : Texts]

TokenSeqs == UNION {[1..n -> Tokens] : n \in 0..MaxTokens}

\* Attrs([(QName('class'), css)]): a one-element tuple of (name, value).
MkAttrs(ttype) == << <<"class", CssClass(ttype)>> >>

\* The events of the stream (pos is the same constant in every event).
StartEv(attrs) == [kind |-> "START", attrs |-> attrs, text |-> <<>>]

TextEv(value) == [kind |-> "TEXT", attrs |-> <<>>, text |-> value]

EndEv == [kind |-> "END", attrs |-> <<>>, text |-> <<>>]

\* "attrs == lattrs": lattrs is None or an Attrs tuple.
AttrsEqual(attrs, prev) == prev.some /\ prev.val = attrs

\* "elif value": a non-empty string is true.
HasValue(value) == Len(value) > 0

\* "if lattrs": yield END
CloseEvents_never(prev) == <<>>

CloseEvents(prev) == IF Truthy(prev) THEN <<EndEv>> ELSE <<>>

\* "if attrs": yield START.  attrs is an Attrs tuple holding one pair, so
\* the test is on the tuple, not on the class string inside it.
OpenEvents_classTest(attrs) == IF attrs[1][2] # "" THEN <<StartEv(attrs)>> ELSE <<>>

OpenEvents(attrs) == IF Truthy(Some(attrs)) THEN <<StartEv(attrs)>> ELSE <<>>

\* The "attrs == lattrs" branch.
SameEvents_noText(value) == <<>>

SameEvents(value) == <<TextEv(value)>>

\* The "elif value" branch: close, reassign lattrs, open, text.
ChangeEvents_textFirst(prev, attrs, value) ==
    CloseEvents(prev) \o <<TextEv(value)>> \o OpenEvents(attrs)

ChangeEvents(prev, attrs, value) ==
    CloseEvents(prev) \o OpenEvents(attrs) \o <<TextEv(value)>>

\* One pass of the for-loop body on token tok with the local lattrs:
\* the events it yields and the new lattrs.
LoopBody_neverSame(prev, tok) ==
    LET attrs == MkAttrs(tok.ttype) IN
    IF HasValue(tok.value)
    THEN [events |-> ChangeEvents(prev, attrs, tok.value), lattrs |-> Some(attrs)]
    ELSE [events |-> <<>>, lattrs |-> prev]

LoopBody_emptyCloses(prev, tok) ==
    LET attrs == MkAttrs(tok.ttype) IN
    IF AttrsEqual(attrs, prev)
    THEN [events |-> SameEvents(tok.value), lattrs |-> prev]
    ELSE [events |-> IF HasValue(tok.value)
                     THEN ChangeEvents(prev, attrs, tok.value)
                     ELSE CloseEvents(prev),
          lattrs |-> IF HasValue(tok.value) THEN Some(attrs) ELSE None]

LoopBody(prev, tok) ==
    LET attrs == MkAttrs(tok.ttype) IN
    IF AttrsEqual(attrs, prev)
    THEN [events |-> SameEvents(tok.value), lattrs |-> prev]
    ELSE IF HasValue(tok.value)
    THEN [events |-> ChangeEvents(prev, attrs, tok.value), lattrs |-> Some(attrs)]
    ELSE [events |-> <<>>, lattrs |-> prev]

\* After the loop: "if lattrs: yield END".
FinalEvents(prev) == CloseEvents(prev)

(***************************************************************************)
(* Grammar table and render service: PygmentsRenderer                      *)
(***************************************************************************)
QUALITY_RATIO == 7

\* MIME type strings, as sequences of pieces so that split(';', 1) has
\* something to split.
MimeHtml == <<"text/html">>

MimeHtmlCharset == <<"text/html", ";", "charset=utf-8">>

MimeXhtml == <<"application/xhtml+xml">>

MimeFoo == <<"text/x-foo">>

MimeUnknown == <<"text/x-unknown">>

\* What get_all_lexers() yields, in its order: (aliases, mimetypes) of
\* each lexer (name and filenames are not read by _init_types).  Two
\* lexers may declare the same MIME type.
Lexers ==
    << [aliases |-> <<"html", "htm">>, mimetypes |-> <<MimeHtml, MimeXhtml>>],
       [aliases |-> <<"xml">>,         mimetypes |-> <<MimeXhtml>>] >>

\* The names get_lexer_by_name() knows: every alias of every lexer.
LexerNames == UNION {{Lexers[i].aliases[j] : j \in 1..Len(Lexers[i].aliases)} : i \in 1..Len(Lexers)}

\* A dict is a set of <<key, value>> pairs.
EmptyDict == {}

HasKey(d, k) == \E e \in d : e[1] = k

GetItem(d, k) == (CHOOSE e \in d : e[1] = k)[2]

Keys(d) == {e[1] : e \in d}

\* d[k] = v
SetItem(d, k, v) == {e \in d : e[1] # k} \cup {<<k, v>>}

\* d.update(other)
DictUpdate_keepExisting(d, other) == d \cup {e \in other : ~HasKey(d, e[1])}

DictUpdate(d, other) == {e \in d : ~HasKey(other, e[1])} \cup other

\* The [pygments_modes] settings the component may run with, as the
\* mimetype -> (mode, quality) dict configured_modes_mapping returns.
Configs ==
    { EmptyDict,
      { <<MimeHtml,        <<"xml", 9>>>>,
        <<MimeHtmlCharset, <<"htm", 8>>>>,
        <<MimeFoo,         <<"nosuch", 5>>>> } }

\* The MIME type strings requests come with.
MimeInputs == {MimeHtml, MimeHtmlCharset, MimeFoo, MimeUnknown}

RECURSIVE PairsOf(_, _)
\* The (mimetype, aliases[0]) pairs of one lexer, in the order of the
\* inner for-loop of _init_types.
PairsOf(aliases, mimetypes) ==
    IF mimetypes = <<>> THEN <<>>
    ELSE << <<Head(mimetypes), aliases[1]>> >> \o PairsOf(aliases, Tail(mimetypes))

RECURSIVE BuiltinPairsFrom(_)
\* The assignments the two nested for-loops of _init_types make, in order.
BuiltinPairsFrom(lexers) ==
    IF lexers = <<>> THEN <<>>
    ELSE PairsOf(Head(lexers).aliases, Head(lexers).mimetypes) \o BuiltinPairsFrom(Tail(lexers))

BuiltinPairs == BuiltinPairsFrom(Lexers)

\* mimetype.split(';', 1)[0]: the pieces before the first ";".
RECURSIVE SplitParams(_)
SplitParams(m) ==
    IF m = <<>> \/ Head(m) = ";" THEN <<>> ELSE <<Head(m)>> \o SplitParams(Tail(m))

\* What a call hands back to its caller.
NoOutcome == [kind |-> "none", quality |-> 0, language |-> "", error |-> ""]

ReturnQuality(q) == [kind |-> "return", quality |-> q, language |-> "", error |-> ""]

\* The Stream over the tokens of the lexer for the language.
ReturnStream(language) == [kind |-> "return", quality |-> 0, language |-> language, error |-> ""]

Raise(exc) == [kind |-> "raise", quality |-> 0, language |-> "", error |-> exc]

NoLexerFound == "Exception: No Pygments lexer found for mime-type"

\* get_quality_ratio: the try/except around self._types[mimetype][1].
QualityResult_noCatch(t, mimetype) ==
    IF ~t.some THEN Raise("TypeError")
    ELSE IF HasKey(t.val, mimetype) THEN ReturnQuality(GetItem(t.val, mimetype)[2])
    ELSE Raise("KeyError")

QualityResult(t, mimetype) ==
    IF ~t.some THEN Raise("TypeError")
    ELSE IF HasKey(t.val, mimetype) THEN ReturnQuality(GetItem(t.val, mimetype)[2])
    ELSE ReturnQuality(0)

\* self._generate(language, content): get_lexer_by_name raises
\* ClassNotFound, a ValueError, for a name no lexer has.
GenerateResult(language) ==
    IF language \in LexerNames THEN ReturnStream(language) ELSE Raise("ValueError")

\* render: the try/except around split, the table lookup and _generate.
RenderResult_catchValueErrorOnly(t, mimetype) ==
    LET base == SplitParams(mimetype) IN
    IF ~t.some THEN Raise("TypeError")
    ELSE IF ~HasKey(t.val, base) THEN Raise("KeyError")
    ELSE LET g == GenerateResult(GetItem(t.val, base)[1]) IN
         IF g.kind = "raise" /\ g.error \in {"ValueError"} THEN Raise(NoLexerFound) ELSE g

RenderResult(t, mimetype) ==
    LET base == SplitParams(mimetype) IN
    IF ~t.some THEN Raise("TypeError")
    ELSE IF ~HasKey(t.val, base) THEN Raise(NoLexerFound)
    ELSE LET g == GenerateResult(GetItem(t.val, base)[1]) IN
         IF g.kind = "raise" /\ g.error \in {"KeyError", "ValueError"}
         THEN Raise(NoLexerFound) ELSE g

Threads == 1..MaxThreads

NoCall == [op |-> "none", mimetype |-> <<>>, grammar |-> "", outcome |-> NoOutcome]

\* render's local "language" once "language = self._types[mimetype][0]"
\* has run, "" when the lookup raised instead.
RenderLanguage_fullString(t, mimetype) ==
    IF t.some /\ HasKey(t.val, mimetype) THEN GetItem(t.val, mimetype)[1] ELSE ""

RenderLanguage(t, mimetype) ==
    LET base == SplitParams(mimetype) IN
    IF t.some /\ HasKey(t.val, base) THEN GetItem(t.val, base)[1] ELSE ""

\* process_request: nothing was asked, nothing was sent.
NoRequest == [style |-> "", ims |-> None, mtime |-> <<0, 0>>]

NoResponse == [status |-> 0, headers |-> <<>>, ended |-> FALSE, body |-> <<>>,
               formatted |-> FALSE, raised |-> ""]

\* render_preference_panel: no request was handled.
NoPrefRequest == [method |-> "", style |-> None, styles |-> <<>>, answer |-> ""]

\* The generator is not running in the service's specification.
GenIdle ==
    /\ tokens = <<>>
    /\ pos = 0
    /\ lattrs = None
    /\ lclass = None
    /\ out = <<>>
    /\ gpc = "done"
    /\ raises = FALSE

\* The component as __init__ leaves it (self._types = None), no request
\* under way.
SvcFresh ==
    /\ types = None
    /\ pc = [t \in Threads |-> "idle"]
    /\ op = [t \in Threads |-> "none"]
    /\ idx = [t \in Threads |-> 0]
    /\ ref = [t \in Threads |-> "none"]
    /\ last = NoCall
    /\ initCalls = 0
    /\ built = FALSE

\* No stylesheet request and no preference request is under way.
OthersIdle ==
    /\ hreq = NoRequest
    /\ hpc = "idle"
    /\ resp = NoResponse
    /\ session = None
    /\ preq = NoPrefRequest
    /\ stored = <<>>

\* generate() is handed a token sequence whose iterator ends normally.
InitCoalesce ==
    /\ have_pygments = TRUE
    /\ config = EmptyDict
    /\ SvcFresh
    /\ OthersIdle
    /\ raises = FALSE
    /\ tokens \in TokenSeqs
    /\ pos = 0
    /\ lattrs = None
    /\ lclass = None
    /\ out = <<>>
    /\ gpc = "loop"

\* One iteration of "for ttype, value in tokens".
GenToken ==
    /\ gpc = "loop"
    /\ pos < Len(tokens)
    /\ LET tok == tokens[pos + 1]
           r   == LoopBody(lattrs, tok)
       IN /\ out' = out \o r.events
          /\ lattrs' = r.lattrs
          /\ lclass' = IF ~AttrsEqual(MkAttrs(tok.ttype), lattrs) /\ HasValue(tok.value)
                       THEN Some(<<tok.ttype>>) ELSE lclass
    /\ pos' = pos + 1
    /\ UNCHANGED <<tokens, gpc, raises>>
    /\ UNCHANGED svcVars
    /\ UNCHANGED otherVars

\* The loop is exhausted: the trailing "if lattrs: yield END".
GenEnd ==
    /\ gpc = "loop"
    /\ pos = Len(tokens)
    /\ ~raises
    /\ out' = out \o FinalEvents(lattrs)
    /\ gpc' = "done"
    /\ UNCHANGED <<tokens, pos, lattrs, lclass, raises>>
    /\ UNCHANGED svcVars
    /\ UNCHANGED otherVars

\* The token iterator raises instead of ending: the exception passes
\* through the for-loop and leaves the generator, nothing more is yielded.
GenRaise ==
    /\ gpc = "loop"
    /\ pos = Len(tokens)
    /\ raises
    /\ gpc' = "error"
    /\ UNCHANGED <<tokens, pos, lattrs, lclass, out, raises>>
    /\ UNCHANGED svcVars
    /\ UNCHANGED otherVars

NextCoalesce == GenToken \/ GenEnd

SpecCoalesce == InitCoalesce /\ [][NextCoalesce]_vars

(***************************************************************************)
(* Request threads on the one PygmentsRenderer instance.  A step is one    *)
(* statement of get_quality_ratio, render or _init_types (a statement that *)
(* writes the dict: the read of self._types, then the write); the code     *)
(* takes no lock anywhere, so the steps of the threads interleave freely.  *)
(***************************************************************************)
Init ==
    /\ GenIdle
    /\ OthersIdle
    /\ have_pygments \in BOOLEAN
    /\ config \in Configs
    /\ SvcFresh

\* A request enters get_quality_ratio or render.
Call(t) ==
    /\ pc[t] = "idle"
    /\ \E o \in {"get_quality_ratio", "render"} : op' = [op EXCEPT ![t] = o]
    /\ pc' = [pc EXCEPT ![t] = "check"]
    /\ UNCHANGED <<have_pygments, config, types, idx, ref, last, initCalls, built>>
    /\ UNCHANGED genVars
    /\ UNCHANGED otherVars

\* "if self._types is None": decides whether _init_types is called.
CheckTypes(t) ==
    /\ pc[t] = "check"
    /\ pc' = [pc EXCEPT ![t] = IF ~types.some THEN "init" ELSE "lookup"]
    /\ UNCHANGED <<have_pygments, config, types, op, idx, ref, last, initCalls, built>>
    /\ UNCHANGED genVars
    /\ UNCHANGED otherVars

\* _init_types, first statement: "self._types = {}", then "if have_pygments".
\* The new dict replaces the old one: a thread that had loaded the old dict
\* for a store or an update still holds the old one.
InitReset(t) ==
    /\ pc[t] = "init"
    /\ types' = Some(EmptyDict)
    /\ ref' = [u \in Threads |-> IF ref[u] = "current" THEN "replaced" ELSE ref[u]]
    /\ initCalls' = initCalls + 1
    /\ IF have_pygments
       THEN /\ pc' = [pc EXCEPT ![t] = "loop"]
            /\ idx' = [idx EXCEPT ![t] = 1]
            /\ built' = built
       ELSE /\ pc' = [pc EXCEPT ![t] = "lookup"]
            /\ idx' = idx
            /\ built' = TRUE
    /\ UNCHANGED <<have_pygments, config, op, last>>
    /\ UNCHANGED genVars
    /\ UNCHANGED otherVars

\* _init_types, "self._types[mimetype] = (aliases[0], QUALITY_RATIO)":
\* the attribute self._types is read ...
InitLoad(t) ==
    /\ pc[t] = "loop"
    /\ idx[t] <= Len(BuiltinPairs)
    /\ types.some
    /\ ref' = [ref EXCEPT ![t] = "current"]
    /\ pc' = [pc EXCEPT ![t] = "store"]
    /\ UNCHANGED <<have_pygments, config, types, op, idx, last, initCalls, built>>
    /\ UNCHANGED genVars
    /\ UNCHANGED otherVars

\* ... and the item is stored in the dict that was read; a dict that was
\* replaced meanwhile is referenced by nothing else, and the store is lost.
InitStore(t) ==
    /\ pc[t] = "store"
    /\ LET pair == BuiltinPairs[idx[t]] IN
       types' = IF ref[t] = "current"
                THEN Some(SetItem(types.val, pair[1], <<pair[2], QUALITY_RATIO>>))
                ELSE types
    /\ ref' = [ref EXCEPT ![t] = "none"]
    /\ IF idx[t] = Len(BuiltinPairs)
       THEN /\ pc' = [pc EXCEPT ![t] = "update"]
            /\ idx' = [idx EXCEPT ![t] = 0]
       ELSE /\ pc' = [pc EXCEPT ![t] = "loop"]
            /\ idx' = [idx EXCEPT ![t] = idx[t] + 1]
    /\ UNCHANGED <<have_pygments, config, op, last, initCalls, built>>
    /\ UNCHANGED genVars
    /\ UNCHANGED otherVars

\* _init_types, last statement, "self._types.update(...)": the dict is
\* read before the argument, the configured modes mapping, is computed ...
UpdateLoad(t) ==
    /\ pc[t] = "update"
    /\ types.some
    /\ ref' = [ref EXCEPT ![t] = "current"]
    /\ pc' = [pc EXCEPT ![t] = "update_call"]
    /\ UNCHANGED <<have_pygments, config, types, op, idx, last, initCalls, built>>
    /\ UNCHANGED genVars
    /\ UNCHANGED otherVars

\* ... and updated after; _init_types returns.
UpdateCall(t) ==
    /\ pc[t] = "update_call"
    /\ types' = IF ref[t] = "current" THEN Some(DictUpdate(types.val, config)) ELSE types
    /\ ref' = [ref EXCEPT ![t] = "none"]
    /\ pc' = [pc EXCEPT ![t] = "lookup"]
    /\ built' = TRUE
    /\ UNCHANGED <<have_pygments, config, op, idx, last, initCalls>>
    /\ UNCHANGED genVars
    /\ UNCHANGED otherVars

\* The try block of the method, on the argument the request came with,
\* and the return or raise that ends the call.
Lookup(t) ==
    /\ pc[t] = "lookup"
    /\ \E mimetype \in MimeInputs :
         last' = [op |-> op[t], mimetype |-> mimetype,
                  grammar |-> IF op[t] = "render"
                              THEN RenderLanguage(types, mimetype) ELSE "",
                  outcome |-> IF op[t] = "render"
                              THEN RenderResult(types, mimetype)
                              ELSE QualityResult(types, mimetype)]
    /\ pc' = [pc EXCEPT ![t] = "idle"]
    /\ op' = [op EXCEPT ![t] = "none"]
    /\ UNCHANGED <<have_pygments, config, types, idx, ref, initCalls, built>>
    /\ UNCHANGED genVars
    /\ UNCHANGED otherVars

Next ==
    \E t \in Threads :
        \/ Call(t)
        \/ CheckTypes(t)
        \/ InitReset(t)
        \/ InitLoad(t)
        \/ InitStore(t)
        \/ UpdateLoad(t)
        \/ UpdateCall(t)
        \/ Lookup(t)

Spec == Init /\ [][Next]_vars

(***************************************************************************)
(* Helpers for the statements about the coalescer                          *)
(***************************************************************************)
RECURSIVE ConcatTexts(_)
\* The payloads of the TEXT events of s, concatenated in order.
ConcatTexts(s) ==
    IF s = <<>> THEN <<>>
    ELSE (IF Head(s).kind = "TEXT" THEN Head(s).text ELSE <<>>) \o ConcatTexts(Tail(s))

RECURSIVE ConcatValues(_)
\* The texts of the tokens of s, concatenated in order.
ConcatValues(s) ==
    IF s = <<>> THEN <<>> ELSE Head(s).value \o ConcatValues(Tail(s))

\* Number of events of the given kind among the first k events of s.
CountKind(s, k, kind) == Cardinality({j \in 1..k : s[j].kind = kind})

\* START events minus END events among the first k events of s.
Depth(s, k) == CountKind(s, k, "START") - CountKind(s, k, "END")

RECURSIVE Coalesce(_, _)
\* The whole event sequence generate() yields for token sequence s,
\* started with the local lattrs = l: the loop, then the trailing END.
Coalesce(s, l) ==
    IF s = <<>> THEN FinalEvents(l)
    ELSE LET r == LoopBody(l, Head(s)) IN r.events \o Coalesce(Tail(s), r.lattrs)

RECURSIVE LattrsAfter(_, _)
\* The value of lattrs after the loop has consumed s, started with l.
LattrsAfter(s, l) ==
    IF s = <<>> THEN l ELSE LattrsAfter(Tail(s), LoopBody(l, Head(s)).lattrs)

\* s without its k-th element.
RemoveAt(s, k) == SubSeq(s, 1, k - 1) \o SubSeq(s, k + 1, Len(s))

Tok(t, v) == [ttype |-> t, value |-> v]

\* The CSS class of the span lattrs stands for ("" is a class too).
SpanClassDiffers(l, ttype) == ~l.some \/ l.val # MkAttrs(ttype)

(***************************************************************************)
(* C1  Losslessness: the TEXT payloads yielded so far, concatenated, are   *)
(* the texts of the tokens consumed so far, concatenated; at the end of    *)
(* the stream they are the texts of all input tokens in input order.       *)
(***************************************************************************)
C1_Lossless ==
    /\ ConcatTexts(out) = ConcatValues(SubSeq(tokens, 1, pos))
    /\ gpc = "done" => ConcatTexts(out) = ConcatValues(tokens)

C1_Witness ==
    /\ gpc = "done"
    /\ tokens = <<Tok("Token.Keyword", <<"x">>), Tok("Token.Keyword", <<>>),
                  Tok("Token.Comment", <<"y">>)>>

(***************************************************************************)
(* C2  Well-nestedness: at every prefix of the output the number of START  *)
(* events minus the number of END events is 0 or 1, and after the last     *)
(* event it is 0.                                                          *)
(***************************************************************************)
C2_WellNested ==
    /\ \A k \in 0..Len(out) : Depth(out, k) \in {0, 1}
    /\ gpc = "done" => Depth(out, Len(out)) = 0

C2_Witness ==
    /\ gpc = "done"
    /\ tokens = <<Tok("Token.Keyword", <<"x">>), Tok("Token", <<"y">>),
                  Tok("Token.Comment", <<"z">>)>>
    /\ CountKind(out, Len(out), "END") = 3

(***************************************************************************)
(* C3  Coalescing.  Original statement of the example: tokens              *)
(* [(A,"x"), (A,"y"), (B,"z")] with A different from B give                *)
(* START(css(A)), TEXT x, TEXT y, END, START(css(B)), TEXT z, END.         *)
(***************************************************************************)
C3_Expected(A, B) ==
    <<StartEv(MkAttrs(A)), TextEv(<<"x">>), TextEv(<<"y">>), EndEv,
      StartEv(MkAttrs(B)), TextEv(<<"z">>), EndEv>>

C3_Example(A, B) == <<Tok(A, <<"x">>), Tok(A, <<"y">>), Tok(B, <<"z">>)>>

C3_Original ==
    \A A, B \in TokenTypes :
        (gpc = "done" /\ A # B /\ tokens = C3_Example(A, B)) => out = C3_Expected(A, B)

(***************************************************************************)
(* C3  Coalescing, amended: a token whose token type is the one of the     *)
(* currently open span yields exactly one TEXT event and nothing else;     *)
(* and [(A,"x"), (A,"y"), (B,"z")] gives the seven events of the example   *)
(* whenever the CSS classes of A and B differ.                             *)
(***************************************************************************)
C3_Coalescing ==
    [][ /\ ( /\ gpc = "loop" /\ pos < Len(tokens)
             /\ Depth(out, Len(out)) = 1
             /\ lclass = Some(<<tokens[pos + 1].ttype>>) )
           => out' = Append(out, TextEv(tokens[pos + 1].value))
        /\ \A A, B \in TokenTypes :
             (gpc' = "done" /\ CssClass(A) # CssClass(B) /\ tokens' = C3_Example(A, B))
                => out' = C3_Expected(A, B) ]_vars

C3_Witness ==
    /\ gpc = "done"
    /\ tokens = C3_Example("Token.Keyword", "Token")
    /\ out = C3_Expected("Token.Keyword", "Token")

(***************************************************************************)
(* C4  Empty-text non-boundary.  Original statement of the example:        *)
(* [(A,"x"), (B,""), (A,"y")] with B different from A gives                *)
(* START(css(A)), TEXT x, TEXT y, END.                                     *)
(***************************************************************************)
C4_Expected(A) == <<StartEv(MkAttrs(A)), TextEv(<<"x">>), TextEv(<<"y">>), EndEv>>

C4_Example(A, B) == <<Tok(A, <<"x">>), Tok(B, <<>>), Tok(A, <<"y">>)>>

C4_Original ==
    \A A, B \in TokenTypes :
        (gpc = "done" /\ A # B /\ tokens = C4_Example(A, B)) => out = C4_Expected(A)

(***************************************************************************)
(* C4  Empty-text non-boundary, amended: a token with empty text whose CSS *)
(* class differs from the CSS class of the current span (or that comes     *)
(* when no span was opened yet) yields no event and leaves lattrs          *)
(* unchanged; the whole output is the output of the sequence without that  *)
(* token; and [(A,"x"), (B,""), (A,"y")] gives START(css(A)), TEXT x,      *)
(* TEXT y, END whenever the CSS classes of A and B differ.                 *)
(***************************************************************************)
C4_EmptyNonBoundary ==
    [][ /\ ( /\ gpc = "loop" /\ pos < Len(tokens)
             /\ tokens[pos + 1].value = <<>>
             /\ SpanClassDiffers(lattrs, tokens[pos + 1].ttype) )
           => /\ out' = out
              /\ lattrs' = lattrs
              /\ lclass' = lclass
        /\ gpc' = "done" =>
             \A k \in 1..Len(tokens) :
                ( /\ tokens[k].value = <<>>
                  /\ SpanClassDiffers(LattrsAfter(SubSeq(tokens, 1, k - 1), None),
                                      tokens[k].ttype) )
                => out' = Coalesce(RemoveAt(tokens, k), None)
        /\ \A A, B \in TokenTypes :
             (gpc' = "done" /\ CssClass(A) # CssClass(B) /\ tokens' = C4_Example(A, B))
                => out' = C4_Expected(A) ]_vars

C4_Witness ==
    /\ gpc = "done"
    /\ tokens = C4_Example("Token.Keyword", "Token.Comment")
    /\ out = C4_Expected("Token.Keyword")

(***************************************************************************)
(* C5  Span count bound: at the end of the stream the START events and the *)
(* END events are equally many, at most as many as the tokens, and fewer   *)
(* than the tokens when two adjacent tokens have the same token type.      *)
(***************************************************************************)
C5_SpanCount ==
    gpc = "done" =>
        LET n     == Len(tokens)
            spans == CountKind(out, Len(out), "START")
        IN /\ spans = CountKind(out, Len(out), "END")
           /\ spans <= n
           /\ (\E k \in 1..(n - 1) : tokens[k].ttype = tokens[k + 1].ttype) => spans < n

C5_Witness ==
    /\ gpc = "done"
    /\ Len(tokens) = 3
    /\ tokens[2].ttype = tokens[3].ttype
    /\ tokens[3].value = <<>>
    /\ CountKind(out, Len(out), "START") = 2

(***************************************************************************)
(* Helpers for the statements about the grammar table                      *)
(***************************************************************************)
\* The MIME types some lexer declares.
BuiltinMimes ==
    UNION {{Lexers[i].mimetypes[j] : j \in 1..Len(Lexers[i].mimetypes)} : i \in 1..Len(Lexers)}

\* The lexers declaring MIME type m, by position in the enumeration.
Declaring(m) ==
    {i \in 1..Len(Lexers) : \E j \in 1..Len(Lexers[i].mimetypes) : Lexers[i].mimetypes[j] = m}

\* The built-in entry of m: first alias of the last lexer declaring it.
BuiltinEntry(m) ==
    LET i == CHOOSE k \in Declaring(m) : \A n \in Declaring(m) : n <= k
    IN <<Lexers[i].aliases[1], QUALITY_RATIO>>

\* The table a complete, undisturbed _init_types leaves.
ResolvedTable ==
    IF have_pygments
    THEN config \cup {<<m, BuiltinEntry(m)>> : m \in BuiltinMimes \ Keys(config)}
    ELSE EmptyDict

\* No thread is between the first and the last statement of _init_types.
NoBuildRunning == \A t \in Threads : pc[t] \notin {"loop", "store", "update", "update_call"}

(***************************************************************************)
(* C6  Single initialization under concurrency: _init_types is entered at  *)
(* most once, however the first requests interleave.                       *)
(***************************************************************************)
C6_SingleInit == initCalls <= 1

(***************************************************************************)
(* C7  Table immutability: once a construction has completed and the table *)
(* is fully built, no step of any request changes it.                      *)
(***************************************************************************)
C7_Immutable == [][ (built /\ types = Some(ResolvedTable)) => types' = types ]_vars

(***************************************************************************)
(* C8  Quality sentinel: get_quality_ratio never raises, and for a MIME    *)
(* type with no entry in the resolved table it returns 0.                  *)
(***************************************************************************)
C8_QualitySentinel ==
    last.op = "get_quality_ratio" =>
        /\ last.outcome.kind = "return"
        /\ ~HasKey(ResolvedTable, last.mimetype) => last.outcome = ReturnQuality(0)

C8_Witness ==
    /\ have_pygments
    /\ last.op = "get_quality_ratio"
    /\ last.mimetype = MimeUnknown
    /\ last.outcome = ReturnQuality(0)
    /\ built

(***************************************************************************)
(* C9  Override precedence: when no construction is running, the table     *)
(* has one entry per MIME type; a MIME type that is both built-in and      *)
(* configured has the configured (mode, quality); every other built-in     *)
(* MIME type has (first alias, QUALITY_RATIO); nothing else is a key.      *)
(***************************************************************************)
C9_OverridePrecedence ==
    (have_pygments /\ built /\ NoBuildRunning) =>
        /\ types.some
        /\ \A e1, e2 \in types.val : e1[1] = e2[1] => e1 = e2
        /\ Keys(types.val) = BuiltinMimes \cup Keys(config)
        /\ \A m \in Keys(config) : GetItem(types.val, m) = GetItem(config, m)
        /\ \A m \in BuiltinMimes \ Keys(config) : GetItem(types.val, m) = BuiltinEntry(m)

C9_Witness ==
    /\ have_pygments /\ built /\ NoBuildRunning
    /\ initCalls = 2
    /\ HasKey(config, MimeHtml)
    /\ types.some
    /\ GetItem(types.val, MimeHtml) = <<"xml", 9>>
    /\ GetItem(types.val, MimeXhtml) = <<"xml", QUALITY_RATIO>>

(***************************************************************************)
(* C10  Unsupported type: render of a MIME type whose type part (the text  *)
(* before ";") has no entry in the resolved table raises the "No Pygments  *)
(* lexer found" exception and returns no stream; render raises no other    *)
(* exception.                                                              *)
(***************************************************************************)
C10_Unsupported ==
    last.op = "render" =>
        /\ ~HasKey(ResolvedTable, SplitParams(last.mimetype))
              => last.outcome = Raise(NoLexerFound)
        /\ last.outcome.kind = "raise" => last.outcome.error = NoLexerFound

C10_Witness ==
    /\ have_pygments
    /\ built
    /\ last.op = "render"
    /\ last.mimetype = MimeUnknown
    /\ last.outcome = Raise(NoLexerFound)

(***************************************************************************)
(* One render call on a table that was built undisturbed, and the          *)
(* template consuming the Stream it returned.  The Stream wraps the        *)
(* generator of generate(), which pulls from lexer.get_tokens(content)     *)
(* only while it is iterated, after render has returned.                   *)
(***************************************************************************)
\* The tokens a lexer yields for the contents rendered.
ContentTokens == {Tok("Token.Keyword", <<"x">>), Tok("Token", <<"y">>)}

ContentTokenSeqs == UNION {[1..n -> ContentTokens] : n \in 0..MaxTokens}

InitRender ==
    /\ GenIdle
    /\ OthersIdle
    /\ have_pygments = TRUE
    /\ config \in Configs
    /\ types = Some(ResolvedTable)
    /\ pc = [t \in Threads |-> "idle"]
    /\ op = [t \in Threads |-> "none"]
    /\ idx = [t \in Threads |-> 0]
    /\ ref = [t \in Threads |-> "none"]
    /\ last = NoCall
    /\ initCalls = 1
    /\ built = TRUE

\* render(context, mimetype, content) from entry to return or raise
\* (self._types is not None, so _init_types is not called).  A returned
\* Stream holds the generator, not yet started, over the token iterator
\* of the lexer; whether that iterator ends or raises shows only later.
RenderRequest ==
    /\ last = NoCall
    /\ gpc = "done"
    /\ \E mimetype \in MimeInputs, toks \in ContentTokenSeqs, r \in BOOLEAN :
         LET res == RenderResult(types, mimetype) IN
         /\ last' = [op |-> "render", mimetype |-> mimetype,
                     grammar |-> RenderLanguage(types, mimetype), outcome |-> res]
         /\ IF res.kind = "return"
            THEN /\ tokens' = toks
                 /\ raises' = r
                 /\ gpc' = "loop"
            ELSE UNCHANGED <<tokens, raises, gpc>>
    /\ UNCHANGED <<pos, lattrs, lclass, out>>
    /\ UNCHANGED <<have_pygments, config, types, pc, op, idx, ref, initCalls, built>>
    /\ UNCHANGED otherVars

NextRender == RenderRequest \/ GenToken \/ GenEnd \/ GenRaise

SpecRender == InitRender /\ [][NextRender]_vars

\* The tokenization step of the render call has failed: the table named a
\* grammar no lexer has, or the lexer raised while producing tokens.
TokenizationFailed ==
    /\ last.op = "render"
    /\ \/ (last.grammar # "" /\ last.grammar \notin LexerNames)
       \/ gpc = "error"

(***************************************************************************)
(* C11  Tokenizer failure collapses to the same error: whenever the        *)
(* tokenization step has failed, what the caller of render got is the      *)
(* "No Pygments lexer found" exception, and no exception of another kind   *)
(* has reached it.                                                         *)
(***************************************************************************)
C11_SameError ==
    TokenizationFailed => (last.outcome = Raise(NoLexerFound) /\ gpc # "error")

(***************************************************************************)
(* Theme stylesheet endpoint: PygmentsRenderer.process_request             *)
(***************************************************************************)
\* The styles get_style_by_name() knows.
StyleNames == {"trac", "default"}

\* The style names match_request takes from the path.
RequestStyles == StyleNames \cup {"nosuch"}

\* os.path.getmtime of the style's file: whole seconds and a fraction.
Mtimes == {<<1, 0>>, <<1, 5>>, <<2, 0>>}

\* http_date(mtime): the date to the second in the one HTTP date format.
HttpDate_keepsFraction(mtime) == <<"http-date", mtime[1], mtime[2]>>

HttpDate(mtime) == <<"http-date", mtime[1], 0>>

\* req.get_header('If-Modified-Since'): None when the header is absent;
\* a client may also send the instant in another date format.
IfModifiedSince ==
    {None, Some(<<"http-date", 1, 0>>), Some(<<"http-date", 2, 0>>),
     Some(<<"rfc850-date", 1, 0>>)}

\* "last_modified == req.get_header('If-Modified-Since')"
NotModified_anyHeader(last_modified, header) == header.some

NotModified(last_modified, header) == header.some /\ header.val = last_modified

\* get_style_by_name(style): the style class, or ClassNotFound (a
\* ValueError) turned into HTTPNotFound.
StyleFound_fallback(style) == TRUE

StyleFound(style) == style \in StyleNames

\* formatter.get_style_defs(selector) of the style's formatter.
StyleDefs(style, selector) == <<style, selector>>

\* u'\n\n'.join([... 'div.code pre', ... 'table.code td']).encode('utf-8')
CssContent_oneBlock(style) == <<StyleDefs(style, "div.code pre")>>

CssContent(style) ==
    <<StyleDefs(style, "div.code pre"), <<"", "\n\n">>, StyleDefs(style, "table.code td")>>

InitCss ==
    /\ GenIdle
    /\ have_pygments = TRUE
    /\ config = EmptyDict
    /\ SvcFresh
    /\ OthersIdle

\* A request matched by match_request enters process_request.
CssRequest ==
    /\ hpc \in {"idle", "done"}
    /\ \E style \in RequestStyles, ims \in IfModifiedSince, mtime \in Mtimes :
         hreq' = [style |-> style, ims |-> ims, mtime |-> mtime]
    /\ resp' = NoResponse
    /\ hpc' = "lookup"
    /\ UNCHANGED <<genVars, svcVars, prefVars>>

\* style_cls = get_style_by_name(style), or raise HTTPNotFound(e).
CssLookup ==
    /\ hpc = "lookup"
    /\ IF StyleFound(hreq.style)
       THEN /\ hpc' = "compare"
            /\ resp' = resp
       ELSE /\ hpc' = "done"
            /\ resp' = [resp EXCEPT !.raised = "HTTPNotFound"]
    /\ UNCHANGED <<hreq, genVars, svcVars, prefVars>>

\* mtime, last_modified and the "if last_modified == ..." test.
CssCompare ==
    /\ hpc = "compare"
    /\ hpc' = IF NotModified(HttpDate(hreq.mtime), hreq.ims) THEN "send304" ELSE "format"
    /\ UNCHANGED <<hreq, resp, genVars, svcVars, prefVars>>

\* req.send_response(304); req.end_headers(); return
CssNotModified ==
    /\ hpc = "send304"
    /\ resp' = [resp EXCEPT !.status = 304, !.ended = TRUE]
    /\ hpc' = "done"
    /\ UNCHANGED <<hreq, genVars, svcVars, prefVars>>

\* formatter = HtmlFormatter(style=style_cls) and content = ...
CssFormat ==
    /\ hpc = "format"
    /\ resp' = [resp EXCEPT !.formatted = TRUE]
    /\ hpc' = "send200"
    /\ UNCHANGED <<hreq, genVars, svcVars, prefVars>>

\* req.send_response(200) and the three req.send_header calls.
CssSendHeaders ==
    /\ hpc = "send200"
    /\ resp' = [resp EXCEPT
                  !.status = 200,
                  !.headers = << <<"Content-Type", <<"text/css; charset=utf-8">> >>,
                                 <<"Last-Modified", HttpDate(hreq.mtime)>>,
                                 <<"Content-Length", <<Len(CssContent(hreq.style))>> >> >>]
    /\ hpc' = "write"
    /\ UNCHANGED <<hreq, genVars, svcVars, prefVars>>

\* req.write(content): ends the headers and sends the body.
CssWrite ==
    /\ hpc = "write"
    /\ resp' = [resp EXCEPT !.ended = TRUE, !.body = CssContent(hreq.style)]
    /\ hpc' = "done"
    /\ UNCHANGED <<hreq, genVars, svcVars, prefVars>>

NextCss ==
    \/ CssRequest
    \/ CssLookup
    \/ CssCompare
    \/ CssNotModified
    \/ CssFormat
    \/ CssSendHeaders
    \/ CssWrite

SpecCss == InitCss /\ [][NextCss]_vars

\* The value of the response header of the given name, if it was sent.
HasHeader(name, value) ==
    \E i \in 1..Len(resp.headers) : resp.headers[i][1] = name /\ resp.headers[i][2] = value

(***************************************************************************)
(* C12  Conditional GET: a finished request for a style that resolves was  *)
(* answered 304, with no header, no body and no CSS generated, exactly     *)
(* when the HTTP date of the style file's mtime is the If-Modified-Since   *)
(* header; otherwise it was answered 200 with Content-Type                 *)
(* "text/css; charset=utf-8", Last-Modified carrying that date and the     *)
(* two rule blocks as body.                                                *)
(***************************************************************************)
C12_ConditionalGet ==
    (hpc = "done" /\ hreq.style \in StyleNames) =>
        /\ resp.raised = ""
        /\ resp.ended
        /\ IF hreq.ims = Some(<<"http-date", hreq.mtime[1], 0>>)
           THEN /\ resp.status = 304
                /\ resp.headers = <<>>
                /\ resp.body = <<>>
                /\ ~resp.formatted
           ELSE /\ resp.status = 200
                /\ HasHeader("Content-Type", <<"text/css; charset=utf-8">>)
                /\ HasHeader("Last-Modified", <<"http-date", hreq.mtime[1], 0>>)
                /\ resp.body = <<<<hreq.style, "div.code pre">>, <<"", "\n\n">>,
                                 <<hreq.style, "table.code td">>>>

C12_Witness ==
    /\ hpc = "done"
    /\ hreq = [style |-> "trac", ims |-> Some(<<"http-date", 1, 0>>), mtime |-> <<1, 5>>]
    /\ resp.status = 304

C12_Witness200 ==
    /\ hpc = "done"
    /\ hreq = [style |-> "trac", ims |-> Some(<<"rfc850-date", 1, 0>>), mtime |-> <<1, 0>>]
    /\ resp.status = 200

(***************************************************************************)
(* C13  Theme not found: a request for a style the registry does not know  *)
(* ends with HTTPNotFound raised, and at no point of its handling has a    *)
(* status line, a header or a body been sent, whatever If-Modified-Since   *)
(* it carries.                                                             *)
(***************************************************************************)
C13_ThemeNotFound ==
    (hreq.style \in RequestStyles \ StyleNames) =>
        /\ resp.status = 0 /\ resp.headers = <<>> /\ resp.body = <<>> /\ ~resp.ended
        /\ hpc \in {"lookup", "done"}
        /\ hpc = "done" => resp.raised = "HTTPNotFound"

C13_Witness ==
    /\ hpc = "done"
    /\ hreq.style = "nosuch"
    /\ hreq.ims = Some(<<"http-date", 1, 0>>)
    /\ hreq.mtime = <<1, 0>>
    /\ resp.raised = "HTTPNotFound"

\* The fair run of the generator: the consumer keeps pulling events until
\* the generator is exhausted.
SpecCoalesceFair == SpecCoalesce /\ WF_vars(NextCoalesce)

\* The kinds of a sequence of events.
KindsOf(e) == [i \in 1..Len(e) |-> e[i].kind]

\* The events appended to the output by a step.
Appended == SubSeq(out', Len(out) + 1, Len(out'))

\* The CSS class of the token that last set the current classification.
CurrentCss == IF lclass.some THEN Some(CssClass(lclass.val[1])) ELSE None

(***************************************************************************)
(* C14  No-class sentinel: no START event is emitted for the empty CSS     *)
(* class, so the text of a token of the empty class that changes the       *)
(* classification is outside any span and no END is emitted for it.        *)
(***************************************************************************)
C14_NoClassSentinel ==
    /\ \A k \in 1..Len(out) : out[k].kind = "START" => out[k].attrs[1][2] # ""
    /\ (gpc = "done" /\ \A k \in 1..Len(tokens) : CssClass(tokens[k].ttype) = "")
          => \A k \in 1..Len(out) : out[k].kind = "TEXT"

(***************************************************************************)
(* C15  Boundary on classification change.  Original statement: a token    *)
(* with non-empty text whose token type differs from the one that set the  *)
(* current classification emits END (if a span is open), START(css),       *)
(* TEXT, and becomes the current classification, also when both token      *)
(* types have the same CSS class.                                          *)
(***************************************************************************)
C15_Original ==
    [][ ( /\ gpc = "loop" /\ pos < Len(tokens)
          /\ HasValue(tokens[pos + 1].value)
          /\ lclass # Some(<<tokens[pos + 1].ttype>>) )
        => /\ Appended = (IF Depth(out, Len(out)) > 0 THEN <<EndEv>> ELSE <<>>)
                         \o <<StartEv(MkAttrs(tokens[pos + 1].ttype)),
                              TextEv(tokens[pos + 1].value)>>
           /\ lclass' = Some(<<tokens[pos + 1].ttype>>) ]_vars

(***************************************************************************)
(* C15  Boundary on classification change, amended: the comparison is on   *)
(* the CSS classes.  A token with non-empty text whose CSS class differs   *)
(* from the CSS class of the current classification (or that is the first  *)
(* token with text) emits END (if a span is open), START(css), TEXT and    *)
(* becomes the current classification; a token with text of another token  *)
(* type but the same CSS class emits only TEXT and the current             *)
(* classification stays.                                                   *)
(***************************************************************************)
C15_Boundary ==
    [][ ( /\ gpc = "loop" /\ pos < Len(tokens)
          /\ HasValue(tokens[pos + 1].value) )
        => IF CurrentCss # Some(CssClass(tokens[pos + 1].ttype))
           THEN /\ Appended = (IF Depth(out, Len(out)) > 0 THEN <<EndEv>> ELSE <<>>)
                              \o <<StartEv(MkAttrs(tokens[pos + 1].ttype)),
                                   TextEv(tokens[pos + 1].value)>>
                /\ lclass' = Some(<<tokens[pos + 1].ttype>>)
           ELSE /\ Appended = <<TextEv(tokens[pos + 1].value)>>
                /\ lclass' = lclass ]_vars

C15_Witness ==
    /\ pos = 2
    /\ tokens[1] = Tok("Token.Keyword", <<"x">>)
    /\ tokens[2] = Tok("Token.Comment", <<"y">>)
    /\ out = <<StartEv(MkAttrs("Token.Keyword")), TextEv(<<"x">>), EndEv,
               StartEv(MkAttrs("Token.Comment")), TextEv(<<"y">>)>>

C15_WitnessSameCss ==
    /\ pos = 2
    /\ tokens[1] = Tok("Token", <<"x">>)
    /\ tokens[2] = Tok("Token.Text", <<"y">>)
    /\ out = <<StartEv(MkAttrs("Token")), TextEv(<<"x">>), TextEv(<<"y">>)>>

(***************************************************************************)
(* C16  Termination and single pass: every fair run of the generator ends  *)
(* in "done" and never in an error; the tokens are consumed one per step   *)
(* in input order, each exactly once; the events of a token are appended   *)
(* in the step that consumes it, as at most END, START, TEXT in that       *)
(* order with the token's text; and the last step appends at most one END. *)
(***************************************************************************)
C16_SinglePass ==
    /\ <>(gpc = "done")
    /\ [](gpc # "error")
    /\ [](gpc = "done" => pos = Len(tokens))
    /\ [][ /\ tokens' = tokens
           /\ SubSeq(out', 1, Len(out)) = out
           /\ IF pos' = pos + 1
              THEN /\ gpc = "loop" /\ gpc' = "loop"
                   /\ \E c, o, t \in BOOLEAN :
                        KindsOf(Appended) = (IF c THEN <<"END">> ELSE <<>>)
                                            \o (IF o THEN <<"START">> ELSE <<>>)
                                            \o (IF t THEN <<"TEXT">> ELSE <<>>)
                   /\ \A i \in 1..Len(Appended) :
                        Appended[i].kind = "TEXT" => Appended[i].text = tokens[pos + 1].value
              ELSE /\ pos' = pos /\ pos = Len(tokens)
                   /\ gpc = "loop" /\ gpc' = "done"
                   /\ Appended \in {<<>>, <<EndEv>>} ]_vars

C16_Witness ==
    /\ gpc = "done"
    /\ pos = MaxTokens
    /\ Len(out) = 3 * MaxTokens

(***************************************************************************)
(* C17  No partially built table is observable: a call for a MIME type     *)
(* that has an entry in the resolved table is never answered from an       *)
(* empty or partly filled table: get_quality_ratio does not return 0 for   *)
(* it, and render, when the entry's mode names a lexer, does not raise     *)
(* the "No Pygments lexer found" exception.                                *)
(***************************************************************************)
C17_NoPartialTable ==
    /\ (last.op = "get_quality_ratio" /\ HasKey(ResolvedTable, last.mimetype))
          => last.outcome # ReturnQuality(0)
    /\ ( /\ last.op = "render"
         /\ HasKey(ResolvedTable, SplitParams(last.mimetype))
         /\ GetItem(ResolvedTable, SplitParams(last.mimetype))[1] \in LexerNames )
          => last.outcome.kind = "return"

\* The step in which a call of the operation looks its MIME type up.
LooksUp(operation) ==
    \E t \in Threads : pc[t] = "lookup" /\ pc'[t] = "idle" /\ op[t] = operation

(***************************************************************************)
(* C18  render and get_quality_ratio agree.  Original statement: for       *)
(* every MIME type string m, parameters after ";" included, render         *)
(* resolves a grammar exactly when m itself is a key of the table, and     *)
(* then it is that entry's grammar.                                        *)
(***************************************************************************)
C18_Original ==
    [][ (LooksUp("render") /\ types.some)
        => /\ (last'.grammar # "") <=> HasKey(types.val, last'.mimetype)
           /\ (last'.grammar # "")
                 => last'.grammar = GetItem(types.val, last'.mimetype)[1] ]_vars

(***************************************************************************)
(* C18  amended: render looks up the part of m before the first ";" and    *)
(* get_quality_ratio looks up m as given.  render resolves a grammar       *)
(* exactly when that type part is a key of the table it reads, and then    *)
(* it is that entry's grammar, which it returns a stream for when a lexer  *)
(* has that name; get_quality_ratio returns the quality of the entry of    *)
(* the whole string m, or 0 when m is not a key.                           *)
(***************************************************************************)
C18_Agreement ==
    [][ /\ (LooksUp("render") /\ types.some)
           => LET base == SplitParams(last'.mimetype) IN
              /\ (last'.grammar # "") <=> HasKey(types.val, base)
              /\ (last'.grammar # "") => last'.grammar = GetItem(types.val, base)[1]
              /\ last'.outcome = IF last'.grammar \in LexerNames
                                 THEN ReturnStream(last'.grammar)
                                 ELSE Raise(NoLexerFound)
        /\ (LooksUp("get_quality_ratio") /\ types.some)
           => last'.outcome = IF HasKey(types.val, last'.mimetype)
                              THEN ReturnQuality(GetItem(types.val, last'.mimetype)[2])
                              ELSE ReturnQuality(0) ]_vars

C18_Witness ==
    /\ built /\ NoBuildRunning
    /\ config = EmptyDict
    /\ types = Some(ResolvedTable)
    /\ last.op = "render"
    /\ last.mimetype = MimeHtmlCharset
    /\ ~HasKey(types.val, MimeHtmlCharset)
    /\ last.outcome = ReturnStream("html")

(***************************************************************************)
(* Preference panel: PygmentsRenderer.render_preference_panel              *)
(***************************************************************************)
\* list(get_all_styles()): the built-in names followed by the names the
\* plugins provide, which may repeat a name and may differ between requests.
StyleLists ==
    {<<"default">>, <<"trac">>, <<"default", "trac">>,
     <<"default", "trac", "monokai", "trac">>}

\* req.args.get('style'): None when the form has no such field.
StyleArgs ==
    {None, Some(""), Some("default"), Some("trac"), Some("monokai"), Some("nosuch")}

\* "style in styles"
InList(x, l) == \E i \in 1..Len(l) : l[i] = x

\* "if style and style in styles"
ValidStyle_noMembership(style, styles) == style.some /\ style.val # ""

ValidStyle(style, styles) == style.some /\ style.val # "" /\ InList(style.val, styles)

InitPrefs ==
    /\ GenIdle
    /\ have_pygments = TRUE
    /\ config = EmptyDict
    /\ SvcFresh
    /\ OthersIdle

\* A POST: store the style when it is valid, then redirect.
PrefsPost ==
    /\ \E style \in StyleArgs, styles \in StyleLists :
         /\ preq' = [method |-> "POST", style |-> style, styles |-> styles,
                     answer |-> "redirect"]
         /\ IF ValidStyle(style, styles)
            THEN session' = Some(style.val) /\ stored' = styles
            ELSE UNCHANGED <<session, stored>>
    /\ UNCHANGED <<genVars, svcVars, cssVars>>

\* Any other method: render the example and return the template data.
PrefsGet ==
    /\ \E styles \in StyleLists :
         preq' = [method |-> "GET", style |-> None, styles |-> styles,
                  answer |-> "prefs_pygments.html"]
    /\ UNCHANGED <<session, stored>>
    /\ UNCHANGED <<genVars, svcVars, cssVars>>

NextPrefs == PrefsPost \/ PrefsGet

SpecPrefs == InitPrefs /\ [][NextPrefs]_vars

(***************************************************************************)
(* C19  Session theme validity: the session's pygments_style is unset or   *)
(* a name of the list of styles enumerated by the POST that stored it; a   *)
(* POST whose style is missing, empty or not in its list leaves the        *)
(* session value as it was; a GET never changes it.                        *)
(***************************************************************************)
C19_SessionTheme ==
    /\ [](session.some => (session.val # "" /\ InList(session.val, stored)))
    /\ [][ /\ preq'.method = "GET" => session' = session
           /\ ( /\ preq'.method = "POST"
                /\ \/ ~preq'.style.some
                   \/ preq'.style.val = ""
                   \/ ~InList(preq'.style.val, preq'.styles) )
              => session' = session
           /\ session' # session
              => /\ preq'.method = "POST"
                 /\ session' = preq'.style
                 /\ stored' = preq'.styles ]_vars

C19_Witness ==
    /\ session = Some("monokai")
    /\ preq.method = "POST"
    /\ preq.style = Some("trac")
    /\ preq.styles = <<"default">>
    /\ stored = <<"default", "trac", "monokai", "trac">>

====
